---- MODULE Spec2Model ----
(***************************************************************************)
(* SUIT firmware update over MQTT-SN (sys/suit/transport/mqtt_sn.c).       *)
(*                                                                         *)
(* Three execution contexts share the module's static state:               *)
(*   - the emcute thread, which runs the publish callbacks                 *)
(*     (on_pub_trigger, suit_mqtt_sn_on_pub_manifest,                      *)
(*     suit_mqtt_sn_on_pub_firmware) and posts messages with msg_send;     *)
(*   - the coordinator thread _suit_mqtt_sn_thread, which receives the     *)
(*     messages and, inside suit_parse, runs suit_mqtt_sn_fetch;           *)
(*   - the shell thread, which runs cmd_sub.                               *)
(* Thread priorities are build configuration (SUIT_MQTT_SN_PRIO is         *)
(* #ifndef-guarded, the emcute priority is the application's), so every    *)
(* interleaving at the blocking calls is modelled.                         *)
(*                                                                         *)
(* CONFIG_SUIT_MQTT_SN_BLOCKSIZE and SUIT_MANIFEST_BUFSIZE are #ifndef     *)
(* configuration macros (defaults 64 and 640).  The model is checked for   *)
(* a small configuration of them; nothing below depends on their values.   *)
(* Characters and payload bytes are one-element strings.                   *)
(***************************************************************************)
EXTENDS Integers, Sequences, FiniteSets, TLC

(* ---- configuration of the build that is checked ---- *)
CONFIG_SUIT_MQTT_SN_BLOCKSIZE == 2
SUIT_MANIFEST_BUFSIZE == 4
(* block topics ".../0" .. ".../MaxBlockNum" and size replies 0..MaxBlockNum+1 are delivered *)
MaxBlockNum == 2
(* emcute_sub attempts of one sub() call that the model follows *)
MaxSubAttempts == 3
(* the callbacks are followed while fewer than MaxPending messages wait in the
   coordinator's queue; below MSG_QUEUE_SIZE msg_send() never blocks the sender *)
MaxPending == 2

(* ---- program constants ---- *)
SUIT_TOPIC_MAX == 128
TOPIC_MAXLEN == 64
SUB_MAXNUM == 3
MSG_QUEUE_SIZE == 4
UINT16 == 65536
(* size_t as on the 16-bit targets; a size_t of 32 bits wraps around in the
   same way, beyond the integers TLC has *)
SIZE_MAX == 65535

SUIT_MSG_TRIGGER == "SUIT_MSG_TRIGGER"
SUIT_MSG_MANIFEST == "SUIT_MSG_MANIFEST"
SUIT_MSG_FIRMWARE == "SUIT_MSG_FIRMWARE"

EMCUTE_OK == "EMCUTE_OK"
EMCUTE_GWDISCON == "EMCUTE_GWDISCON"
EMCUTE_TIMEOUT == "EMCUTE_TIMEOUT"
EmcuteResults == {EMCUTE_OK, EMCUTE_GWDISCON, EMCUTE_TIMEOUT}
(* topic id a SUBACK assigns: 0 as for a wildcard topic, or a registered id *)
TopicIds == {0, 1}

SUIT_OK == "SUIT_OK"
SUIT_ERR == "SUIT_ERR"
EINVAL == "-EINVAL"

NUL == "NUL"

(* ---- C strings as sequences of characters ---- *)
Digits == <<"0", "1", "2", "3", "4", "5", "6", "7", "8", "9">>

IsDigit(c) == \E d \in 1..Len(Digits) : Digits[d] = c

DigitValue(c) == (CHOOSE d \in 1..Len(Digits) : Digits[d] = c) - 1

IsSpace(c) == c = " "

RECURSIVE AtoiDigits(_, _, _)
AtoiDigits(s, i, acc) ==
    IF i > Len(s) \/ ~IsDigit(s[i]) THEN acc
    ELSE AtoiDigits(s, i + 1, acc * 10 + DigitValue(s[i]))

RECURSIVE SkipSpace(_, _)
SkipSpace(s, i) == IF i <= Len(s) /\ IsSpace(s[i]) THEN SkipSpace(s, i + 1) ELSE i

(* atoi(): optional blanks, optional sign, then decimal digits up to the
   first character that is no digit; 0 when there is no digit *)
atoi(s) ==
    LET i == SkipSpace(s, 1) IN
    IF i <= Len(s) /\ s[i] = "-" THEN 0 - AtoiDigits(s, i + 1, 0)
    ELSE IF i <= Len(s) /\ s[i] = "+" THEN AtoiDigits(s, i + 1, 0)
    ELSE AtoiDigits(s, i, 0)

(* strrchr(s, c): index of the last c in s, 0 when absent (NULL) *)
strrchr(s, c) ==
    LET at == {i \in 1..Len(s) : s[i] = c} IN
    IF at = {} THEN 0 ELSE CHOOSE i \in at : \A j \in at : j <= i

(* strncmp(a, b, n) == 0 for NUL-terminated strings *)
strncmp_eq(a, b, n) ==
    \A i \in 1..n :
        LET ca == IF i <= Len(a) THEN a[i] ELSE NUL
            cb == IF i <= Len(b) THEN b[i] ELSE NUL
        IN  \/ ca = cb
            \/ \E j \in 1..(i - 1) :
                   (IF j <= Len(a) THEN a[j] ELSE NUL) = NUL
                   /\ (IF j <= Len(b) THEN b[j] ELSE NUL) = NUL

Prefix(s, n) == SubSeq(s, 1, IF n < Len(s) THEN n ELSE Len(s))

Min(a, b) == IF a < b THEN a ELSE b

MQTT_SCHEME == <<"m", "q", "t", "t", ":", "/", "/">>

(* memcpy(buf + off, data, len) restricted to the bytes that lie in buf *)
memcpy(buf, off, data) ==
    [i \in 1..Len(buf) |->
        IF off < i /\ i <= off + Len(data) THEN data[i - off] ELSE buf[i]]


(* ---- inputs delivered by the transport ---- *)
PAYLOAD_A == <<"a1", "a2", "a3", "a4", "a5", "a6">>
PAYLOAD_B == <<"b1", "b2", "b3", "b4", "b5", "b6">>

(* payload lengths: a short block, a full block, one byte more than a block *)
PayloadLens == {1, CONFIG_SUIT_MQTT_SN_BLOCKSIZE, CONFIG_SUIT_MQTT_SN_BLOCKSIZE + 1}

FirmwarePayloads == {SubSeq(PAYLOAD_A, 1, n) : n \in PayloadLens}
ManifestPayloads ==
    FirmwarePayloads \cup {SubSeq(PAYLOAD_B, 1, CONFIG_SUIT_MQTT_SN_BLOCKSIZE)}

SizePayloads == {<<Digits[n + 1]>> : n \in 0..(MaxBlockNum + 1)}

(* names under a wildcard subscription "<parent>/#": the size topic "<parent>/",
   the block topics "<parent>/<n>", and a name without any '/' *)
SizeTopic == <<"p", "/">>
BlockTopic(n) == <<"p", "/", Digits[n + 1]>>
BlockTopics == {BlockTopic(n) : n \in 0..MaxBlockNum}

Publishes(payloads) ==
    ({SizeTopic} \X SizePayloads) \cup (BlockTopics \X payloads)
        \cup {<<(<<"p">>), SubSeq(PAYLOAD_A, 1, 1)>>}

(* trigger payloads: the manifest parent topic with and without the scheme *)
ManifestUrl == MQTT_SCHEME \o <<"m">>
TriggerPayloads == {ManifestUrl, <<"m">>}

(* ---- state ---- *)
VARIABLES
    expected_manifest_block, num_manifest_blocks,   \* mqtt_sn.c:82-83
    expected_fw_block, num_fw_blocks,               \* mqtt_sn.c:84-85
    subscriptions, topics,                          \* mqtt_sn.c:87-88
    _manifest_topic, _fw_topic,                     \* mqtt_sn.c:92-93
    _manifest_buf, suit_manifest,                   \* mqtt_sn.c:95-96
    current_fw_block, current_manifest_block,       \* mqtt_sn.c:98-99
    msg_queue,        \* messages queued for _suit_mqtt_sn_pid (msg_queue[4])
    emcute_subs,      \* slots emcute has in its subscription list
    pc,               \* where the coordinator thread waits
    sub_frame,        \* the sub() call in progress of each thread
    crashed,          \* an out-of-bounds write ended the program
    fetch_step,       \* what suit_mqtt_sn_fetch did with the last message it received;
                      \* extent is offset + len of the block as integers, wres the
                      \* result of suit_storage_write
    outcome,          \* result of the last suit_parse and of the header validation
    storage,          \* scenario record: storage calls of the fetch
    transfer,         \* scenario record: manifest topic deliveries since the trigger
    fw_transfer,      \* scenario record: firmware topic deliveries since the fetch began
    last_known_good_gateway   \* endpoint of the last successful cmd_con

vars == <<expected_manifest_block, num_manifest_blocks, expected_fw_block, num_fw_blocks,
          subscriptions, topics, _manifest_topic, _fw_topic, _manifest_buf, suit_manifest,
          current_fw_block, current_manifest_block, msg_queue, emcute_subs,
          pc, sub_frame, crashed, storage, fetch_step, outcome, transfer, fw_transfer,
          last_known_good_gateway>>

Threads == {"coordinator", "shell"}
IdleFrame == [pc |-> "idle", i |-> 0, topic |-> <<>>, len |-> 0, nsub |-> 0, ncon |-> 0,
              res |-> "none", ret |-> "none"]
NoManifest == [size_known |-> FALSE, image_size |-> 0]
NoOutcome == [parse |-> "none", hdr_valid |-> FALSE]
NoTransfer == [stage |-> "idle", n |-> 0, payloads |-> <<>>, done |-> 0]
AF_INET6 == "AF_INET6"
(* the zeroed global sock_udp_ep_t (mqtt_sn.c:101) *)
NoGateway == [family |-> "AF_UNSPEC", addr |-> <<0, 0, 0, 0, 0, 0, 0, 0>>, port |-> 0]
NoStep == [extent |-> 0, last |-> FALSE, writes |-> 0, wres |-> "none", finishes |-> 0,
           ret |-> "none"]

(* state after suit_mqtt_sn_run(): zeroed statics *)
Init ==
    /\ expected_manifest_block = 0
    /\ num_manifest_blocks = 0
    /\ expected_fw_block = 0
    /\ num_fw_blocks = 0
    /\ subscriptions = [i \in 0..(SUB_MAXNUM - 1) |-> [pub_cb |-> "none", id |-> 0]]
    /\ topics = [i \in 0..SUB_MAXNUM |-> <<>>]
    /\ _manifest_topic = <<>>
    /\ _fw_topic = <<>>
    /\ _manifest_buf = [i \in 1..SUIT_MANIFEST_BUFSIZE |-> NUL]
    /\ suit_manifest = NoManifest
    /\ current_fw_block = [num |-> 0, data |-> [i \in 1..CONFIG_SUIT_MQTT_SN_BLOCKSIZE |-> NUL], len |-> 0]
    /\ current_manifest_block = [num |-> 0, len |-> 0]
    /\ msg_queue = <<>>
    /\ emcute_subs = {}
    /\ pc = "thread_recv"
    /\ sub_frame = [t \in Threads |-> IdleFrame]
    /\ crashed = FALSE
    /\ storage = <<>>
    /\ fetch_step = NoStep
    /\ outcome = NoOutcome
    /\ transfer = NoTransfer
    /\ fw_transfer = NoTransfer
    /\ last_known_good_gateway = NoGateway

(* _parse_block_publish without the comparison with *expected_block *)
_parse_block_publish_any_order(topic_name, data, num_blocks, expected_block) ==
    LET final_delimiter == strrchr(topic_name, "/")
        block_num == atoi(SubSeq(topic_name, final_delimiter + 1, Len(topic_name)))
    IN  IF final_delimiter = 0
        THEN [ret |-> -1, num_blocks |-> num_blocks, expected_block |-> expected_block]
        ELSE IF topic_name[Len(topic_name)] = "/"
        THEN [ret |-> -1, num_blocks |-> atoi(data), expected_block |-> expected_block]
        ELSE [ret |-> block_num, num_blocks |-> num_blocks,
              expected_block |-> IF block_num = num_blocks - 1 THEN 0 ELSE block_num + 1]

(* ---- _parse_block_publish (mqtt_sn.c:172-203) ---- *)
(* returns the block number or -1, with the updated *num_blocks and *expected_block *)
_parse_block_publish(topic_name, data, num_blocks, expected_block) ==
    LET final_delimiter == strrchr(topic_name, "/")
        block_num == atoi(SubSeq(topic_name, final_delimiter + 1, Len(topic_name)))
    IN  IF final_delimiter = 0
        THEN [ret |-> -1, num_blocks |-> num_blocks, expected_block |-> expected_block]
        ELSE IF topic_name[Len(topic_name)] = "/"
        THEN [ret |-> -1, num_blocks |-> atoi(data), expected_block |-> expected_block]
        ELSE IF block_num # expected_block
        THEN [ret |-> -1, num_blocks |-> num_blocks, expected_block |-> expected_block]
        ELSE [ret |-> block_num, num_blocks |-> num_blocks,
              expected_block |-> IF block_num = num_blocks - 1 THEN 0 ELSE block_num + 1]

(* msg_send() to the coordinator while its queue has room *)
msg_send(m) == msg_queue' = Append(msg_queue, m)

(* the emcute thread can run a publish callback of kind cb *)
Dispatch(cb) ==
    /\ ~crashed
    /\ Len(msg_queue) < Min(MaxPending, MSG_QUEUE_SIZE)
    /\ \E i \in emcute_subs : i < SUB_MAXNUM /\ subscriptions[i].pub_cb = cb


(* ---- bookkeeping of what the transport delivered (no program state) ---- *)
BlockTopicName(n) == IF n < Len(Digits) THEN BlockTopic(n) ELSE <<>>

Deliver(mon, topic, data) ==
    IF mon.stage = "idle" THEN mon
    ELSE IF mon.stage = "triggered" /\ topic = SizeTopic
    THEN [mon EXCEPT !.stage = "sized", !.n = atoi(data)]
    ELSE IF mon.stage = "sized" /\ Len(mon.payloads) < mon.n
            /\ topic = BlockTopicName(Len(mon.payloads))
    THEN [mon EXCEPT !.payloads = Append(@, data)]
    ELSE [mon EXCEPT !.stage = "disturbed", !.n = 0, !.payloads = <<>>]

StartTransfer == [NoTransfer EXCEPT !.stage = "triggered"]

(* ---- publish callbacks, run by the emcute thread ---- *)

(* on_pub_trigger -> suit_mqtt_sn_trigger (mqtt_sn.c:205-216, 245-251) *)
suit_mqtt_sn_trigger(topic) ==
    /\ Dispatch("trigger")
    /\ _manifest_topic' = topic
    /\ msg_send([type |-> SUIT_MSG_TRIGGER, value |-> 0])
    /\ UNCHANGED <<expected_manifest_block, num_manifest_blocks, expected_fw_block,
                   num_fw_blocks, subscriptions, topics, _fw_topic, _manifest_buf,
                   suit_manifest, current_fw_block, current_manifest_block, emcute_subs,
                   pc, sub_frame, crashed, storage, fetch_step, outcome,
                   last_known_good_gateway>>

(* suit_mqtt_sn_on_pub_manifest (mqtt_sn.c:253-276) *)
suit_mqtt_sn_on_pub_manifest(topic, data) ==
    /\ Dispatch("manifest")
    /\ LET r == _parse_block_publish(topic, data, num_manifest_blocks, expected_manifest_block)
           off == r.ret * CONFIG_SUIT_MQTT_SN_BLOCKSIZE
       IN  /\ num_manifest_blocks' = r.num_blocks
           /\ expected_manifest_block' = r.expected_block
           /\ IF r.ret >= 0
              THEN /\ current_manifest_block' = [num |-> r.ret % UINT16, len |-> Len(data)]
                   /\ _manifest_buf' = memcpy(_manifest_buf, off, data)
                   /\ \E fault \in (IF off + Len(data) > SUIT_MANIFEST_BUFSIZE
                                    THEN BOOLEAN ELSE {FALSE}) :
                          /\ crashed' = fault
                          /\ IF fault THEN UNCHANGED msg_queue
                             ELSE msg_send([type |-> SUIT_MSG_MANIFEST, value |-> r.ret])
              ELSE UNCHANGED <<current_manifest_block, _manifest_buf, crashed, msg_queue>>
    /\ UNCHANGED <<expected_fw_block, num_fw_blocks, subscriptions, topics,
                   _manifest_topic, _fw_topic, suit_manifest, current_fw_block,
                   emcute_subs, pc, sub_frame, storage, fetch_step, outcome,
                   last_known_good_gateway>>

(* what a payload that runs over data[] may leave in the len field behind it:
   any size_t; the smallest and the largest stand for them *)
OverwrittenLens == {0, SIZE_MAX}

(* suit_mqtt_sn_on_pub_firmware (mqtt_sn.c:278-301).  A payload longer than
   data[] runs into the padding and the len field that follow it in
   suit_mqtt_sn_firmware_block_t: len keeps the assigned value or is
   overwritten with bytes of the payload. *)
suit_mqtt_sn_on_pub_firmware(topic, data) ==
    /\ Dispatch("firmware")
    /\ LET r == _parse_block_publish(topic, data, num_fw_blocks, expected_fw_block)
       IN  /\ num_fw_blocks' = r.num_blocks
           /\ expected_fw_block' = r.expected_block
           /\ IF r.ret >= 0
              THEN /\ \E l \in (IF Len(data) > CONFIG_SUIT_MQTT_SN_BLOCKSIZE
                                THEN {Len(data)} \cup OverwrittenLens
                                ELSE {Len(data)}) :
                          current_fw_block' =
                              [num |-> r.ret % UINT16,
                               data |-> memcpy(current_fw_block.data, 0, data),
                               len |-> l]
                   /\ msg_send([type |-> SUIT_MSG_FIRMWARE, value |-> 0])
              ELSE UNCHANGED <<current_fw_block, msg_queue>>
    /\ UNCHANGED <<expected_manifest_block, num_manifest_blocks, subscriptions, topics,
                   _manifest_topic, _fw_topic, _manifest_buf, suit_manifest,
                   current_manifest_block, emcute_subs, pc, sub_frame, crashed,
                   storage, fetch_step, outcome,
                   last_known_good_gateway>>

(* ---- sub() (mqtt_sn.c:106-157) ---- *)
(* SUIT_TRIGGER is a build-time string; sizeof(argv[1]) is the size of a char* *)
SUIT_TRIGGER == <<"t", "r", "g">>
SIZEOF_CHAR_PTR == 4

StartsWithScheme(topic) == strncmp_eq(topic, MQTT_SCHEME, Len(MQTT_SCHEME))

RECURSIVE FreeSlot(_)
FreeSlot(i) ==
    IF i < SUB_MAXNUM /\ subscriptions[i].id # 0 THEN FreeSlot(i + 1) ELSE i

(* mqtt_sn.c:116-129: the slot sub() uses; SUB_MAXNUM when the loop finds none *)
SubSlot(topic, len) ==
    IF strncmp_eq(SUIT_TRIGGER, topic, len) THEN 0 ELSE FreeSlot(1)

(* mqtt_sn.c:133-134: strncpy(topics[i], topic, len); topics[i][len] = '\0'.
   With len = TOPIC_MAXLEN the terminator is the first byte of the next row. *)
StoreTopic(tp, i, topic, len) ==
    [j \in DOMAIN tp |->
        IF j = i THEN Prefix(topic, len)
        ELSE IF j = i + 1 /\ len = TOPIC_MAXLEN THEN <<>>
        ELSE tp[j]]

(* mqtt_sn.c:109-137: sub() up to the label sub.  Writing subscriptions[SUB_MAXNUM]
   is out of bounds: the program faults or goes on with foreign memory. *)
sub(self, topic, len, on_pub) ==
    IF len > TOPIC_MAXLEN
    THEN /\ sub_frame' = [sub_frame EXCEPT ![self] =
                 [IdleFrame EXCEPT !.ret = "1"]]
         /\ UNCHANGED <<subscriptions, topics, crashed>>
    ELSE LET i == SubSlot(topic, len) IN
         /\ subscriptions' = IF i < SUB_MAXNUM
                             THEN [subscriptions EXCEPT ![i].pub_cb = on_pub]
                             ELSE subscriptions
         /\ topics' = StoreTopic(topics, i, topic, len)
         /\ crashed' \in (IF i < SUB_MAXNUM THEN {FALSE} ELSE BOOLEAN)
         /\ sub_frame' = [sub_frame EXCEPT ![self] =
                 [pc |-> "emcute_sub", i |-> i, topic |-> topic, len |-> len,
                  nsub |-> 0, ncon |-> 0, res |-> "none", ret |-> "none"]]

(* one emcute_sub() attempt that reconnects after every failure *)
sub_emcute_sub_reconnect_always(self, results, ids) ==
    /\ ~crashed
    /\ sub_frame[self].pc = "emcute_sub"
    /\ \E res \in results, tid \in ids :
          LET f == sub_frame[self] IN
          /\ res # EMCUTE_OK => f.nsub + 1 < MaxSubAttempts
          /\ IF res = EMCUTE_OK
             THEN /\ subscriptions' = IF f.i < SUB_MAXNUM
                                      THEN [subscriptions EXCEPT ![f.i].id = tid]
                                      ELSE subscriptions
                  /\ emcute_subs' = emcute_subs \cup {f.i}
                  /\ sub_frame' = [sub_frame EXCEPT ![self] =
                         [IdleFrame EXCEPT !.ret = "0", !.res = res]]
             ELSE /\ UNCHANGED <<subscriptions, emcute_subs>>
                  /\ sub_frame' = [sub_frame EXCEPT ![self] =
                         IF res # EMCUTE_OK
                         THEN [f EXCEPT !.pc = "emcute_con", !.nsub = f.nsub + 1, !.res = res]
                         ELSE [IdleFrame EXCEPT !.ret = "1", !.res = res]]
    /\ UNCHANGED <<expected_manifest_block, num_manifest_blocks, expected_fw_block,
                   num_fw_blocks, topics, _manifest_topic, _fw_topic, _manifest_buf,
                   suit_manifest, current_fw_block, current_manifest_block, msg_queue,
                   pc, crashed, storage, fetch_step, outcome,
                   last_known_good_gateway>>

(* mqtt_sn.c:138-156: one emcute_sub() attempt at the label sub; res of the
   frame keeps the result of the last attempt *)
sub_emcute_sub(self, results, ids) ==
    /\ ~crashed
    /\ sub_frame[self].pc = "emcute_sub"
    /\ \E res \in results, tid \in ids :
          LET f == sub_frame[self] IN
          /\ res = EMCUTE_GWDISCON => f.nsub + 1 < MaxSubAttempts
          /\ IF res = EMCUTE_OK
             THEN /\ subscriptions' = IF f.i < SUB_MAXNUM
                                      THEN [subscriptions EXCEPT ![f.i].id = tid]
                                      ELSE subscriptions
                  /\ emcute_subs' = emcute_subs \cup {f.i}
                  /\ sub_frame' = [sub_frame EXCEPT ![self] =
                         [IdleFrame EXCEPT !.ret = "0", !.res = res]]
             ELSE /\ UNCHANGED <<subscriptions, emcute_subs>>
                  /\ sub_frame' = [sub_frame EXCEPT ![self] =
                         IF res = EMCUTE_GWDISCON
                         THEN [f EXCEPT !.pc = "emcute_con", !.nsub = f.nsub + 1, !.res = res]
                         ELSE [IdleFrame EXCEPT !.ret = "1", !.res = res]]
    /\ UNCHANGED <<expected_manifest_block, num_manifest_blocks, expected_fw_block,
                   num_fw_blocks, topics, _manifest_topic, _fw_topic, _manifest_buf,
                   suit_manifest, current_fw_block, current_manifest_block, msg_queue,
                   pc, crashed, storage, fetch_step, outcome,
                   last_known_good_gateway>>

(* mqtt_sn.c:143-153: emcute_con() to last_known_good_gateway, then goto sub *)
sub_emcute_con(self) ==
    /\ ~crashed
    /\ sub_frame[self].pc = "emcute_con"
    /\ \E res \in {EMCUTE_OK, EMCUTE_TIMEOUT} :
          sub_frame' = [sub_frame EXCEPT ![self] =
              IF res = EMCUTE_OK
              THEN [@ EXCEPT !.pc = "emcute_sub", !.ncon = @ + 1]
              ELSE [IdleFrame EXCEPT !.ret = "1", !.res = sub_frame[self].res]]
    /\ UNCHANGED <<expected_manifest_block, num_manifest_blocks, expected_fw_block,
                   num_fw_blocks, subscriptions, topics, _manifest_topic, _fw_topic,
                   _manifest_buf, suit_manifest, current_fw_block, current_manifest_block,
                   msg_queue, emcute_subs, pc, crashed, storage, fetch_step,
                   outcome,
                   last_known_good_gateway>>

(* ---- _suit_handle_topic (mqtt_sn.c:159-170) ---- *)
(* the caller's buffer after the call: strcat(topic, "/#") is done in place *)
HandledTopic(topic) ==
    IF StartsWithScheme(topic) THEN topic \o <<"/", "#">> ELSE topic

_suit_handle_topic(self, topic, on_pub) ==
    IF ~StartsWithScheme(topic)
    THEN /\ sub_frame' = [sub_frame EXCEPT ![self] =
                 [IdleFrame EXCEPT !.ret = EINVAL]]
         /\ UNCHANGED <<subscriptions, topics, crashed>>
    ELSE LET name == SubSeq(HandledTopic(topic), Len(MQTT_SCHEME) + 1, Len(topic) + 2)
         IN  sub(self, name, Len(name), on_pub)

(* ---- cmd_sub (mqtt_sn.c:463-471), run by the shell thread ---- *)
cmd_sub(argv1) ==
    /\ ~crashed
    /\ sub_frame["shell"].pc = "idle"
    /\ sub("shell", argv1, SIZEOF_CHAR_PTR, "trigger")
    /\ UNCHANGED <<expected_manifest_block, num_manifest_blocks, expected_fw_block,
                   num_fw_blocks, _manifest_topic, _fw_topic, _manifest_buf,
                   suit_manifest, current_fw_block, current_manifest_block, msg_queue,
                   emcute_subs, pc, storage, fetch_step, outcome,
                   last_known_good_gateway>>

(* ---- cmd_con (mqtt_sn.c:420-461), run by the shell thread ---- *)
GATEWAY_PORT == 10000
GATEWAY_ADDRESS == "2001:db8::1"

(* ipv6_addr_from_str: the eight groups of the address, or NULL (no groups)
   for a string that is no address *)
ipv6_addr_from_str(str) ==
    IF str = GATEWAY_ADDRESS THEN <<8193, 3512, 0, 0, 0, 0, 0, 1>> ELSE <<>>

(* the command lines "con", "con <addr>", "con <addr> <port>" *)
ConArgvs ==
    {[argc |-> 1, addr |-> "", port |-> <<>>]}
        \cup {[argc |-> 2, addr |-> a, port |-> <<>>] : a \in {GATEWAY_ADDRESS, "gateway"}}
        \cup {[argc |-> 3, addr |-> GATEWAY_ADDRESS, port |-> <<"1">>]}

(* the endpoint cmd_con builds from its arguments (mqtt_sn.c:427-436) *)
ConGateway(argv) ==
    [family |-> AF_INET6,
     addr |-> ipv6_addr_from_str(argv.addr),
     port |-> IF argv.argc >= 3 THEN atoi(argv.port) % UINT16 ELSE GATEWAY_PORT]

(* cmd_con that stores the endpoint whatever emcute_con returned *)
cmd_con_store_always(argv, res) ==
    /\ ~crashed
    /\ sub_frame["shell"].pc = "idle"
    /\ LET refused == argv.argc < 2 \/ ipv6_addr_from_str(argv.addr) = <<>>
           failed == refused \/ res # EMCUTE_OK
       IN  /\ last_known_good_gateway' =
                  IF refused THEN last_known_good_gateway ELSE ConGateway(argv)
           /\ sub_frame' = [sub_frame EXCEPT !["shell"] =
                  [IdleFrame EXCEPT !.ret = IF failed THEN "1" ELSE "0"]]
    /\ UNCHANGED <<expected_manifest_block, num_manifest_blocks, expected_fw_block,
                   num_fw_blocks, subscriptions, topics, _manifest_topic, _fw_topic,
                   _manifest_buf, suit_manifest, current_fw_block, current_manifest_block,
                   msg_queue, emcute_subs, pc, crashed, storage, fetch_step, outcome>>

(* cmd_con with the result res of emcute_con: it returns 1 without the
   address, for a string that is no address and when emcute_con failed;
   otherwise it stores the endpoint and returns 0.  The device status
   publishes that follow leave the state of this module alone. *)
cmd_con(argv, res) ==
    /\ ~crashed
    /\ sub_frame["shell"].pc = "idle"
    /\ LET failed == \/ argv.argc < 2
                     \/ ipv6_addr_from_str(argv.addr) = <<>>
                     \/ res # EMCUTE_OK
       IN  /\ last_known_good_gateway' =
                  IF failed THEN last_known_good_gateway ELSE ConGateway(argv)
           /\ sub_frame' = [sub_frame EXCEPT !["shell"] =
                  [IdleFrame EXCEPT !.ret = IF failed THEN "1" ELSE "0"]]
    /\ UNCHANGED <<expected_manifest_block, num_manifest_blocks, expected_fw_block,
                   num_fw_blocks, subscriptions, topics, _manifest_topic, _fw_topic,
                   _manifest_buf, suit_manifest, current_fw_block, current_manifest_block,
                   msg_queue, emcute_subs, pc, crashed, storage, fetch_step, outcome>>

(* ---- what the manifest parser and the storage backend may answer ---- *)
FirmwareUrls == {MQTT_SCHEME \o <<"f">>, <<"f">>}
ImageSizes == {CONFIG_SUIT_MQTT_SN_BLOCKSIZE + 1}
StorageResults == {SUIT_OK, SUIT_ERR}

(* the scenario record of the storage calls keeps the first MaxStorageLog of a fetch *)
MaxStorageLog == 4
Log(log, call) ==
    IF fw_transfer.stage = "idle" \/ Len(log) >= MaxStorageLog THEN log ELSE Append(log, call)

Receiving(where) ==
    /\ ~crashed
    /\ pc = where
    /\ sub_frame["coordinator"].pc = "idle"
    /\ msg_queue # <<>>

(* ---- _suit_mqtt_sn_thread (mqtt_sn.c:473-537) ---- *)

(* case SUIT_MSG_TRIGGER (mqtt_sn.c:488-493) *)
thread_trigger ==
    /\ Receiving("thread_recv")
    /\ Head(msg_queue).type = SUIT_MSG_TRIGGER
    /\ msg_queue' = Tail(msg_queue)
    /\ _manifest_topic' = HandledTopic(_manifest_topic)
    /\ _suit_handle_topic("coordinator", _manifest_topic, "manifest")
    /\ UNCHANGED <<expected_manifest_block, num_manifest_blocks, expected_fw_block,
                   num_fw_blocks, _fw_topic, _manifest_buf, suit_manifest,
                   current_fw_block, current_manifest_block, emcute_subs,
                   pc, storage, fetch_step, outcome,
                   last_known_good_gateway>>

(* the length handed to suit_parse (mqtt_sn.c:505-507) *)
ManifestLen ==
    (num_manifest_blocks - 1) * CONFIG_SUIT_MQTT_SN_BLOCKSIZE + current_manifest_block.len

(* (uint16_t) m.content.value == num_manifest_blocks - 1 (mqtt_sn.c:495) *)
IsLastManifestBlock(m) == (m.value % UINT16) = num_manifest_blocks - 1

(* suit_mqtt_sn_fetch up to its receive loop (mqtt_sn.c:329-337): it copies
   the manifest and the url and subscribes to the firmware topic; the result
   of _suit_handle_topic is not looked at *)
suit_mqtt_sn_fetch(url, manifest) ==
    /\ suit_manifest' = manifest
    /\ _fw_topic' = HandledTopic(Prefix(url, SUIT_TOPIC_MAX - 1))
    /\ _suit_handle_topic("coordinator", Prefix(url, SUIT_TOPIC_MAX - 1), "firmware")
    /\ pc' = "fetch_recv"
    /\ fetch_step' = NoStep
    /\ storage' = <<>>

(* case SUIT_MSG_MANIFEST (mqtt_sn.c:494-531) up to the point where suit_parse
   has failed or has called suit_mqtt_sn_fetch with the url and the manifest
   it parsed; suit_parse writes the url into manifest.urlbuf = _manifest_topic *)
thread_manifest ==
    /\ Receiving("thread_recv")
    /\ Head(msg_queue).type = SUIT_MSG_MANIFEST
    /\ msg_queue' = Tail(msg_queue)
    /\ IF ~IsLastManifestBlock(Head(msg_queue))
       THEN UNCHANGED <<subscriptions, topics, _manifest_topic, _fw_topic, suit_manifest,
                        pc, sub_frame, crashed, storage, fetch_step, outcome>>
       ELSE \E parsed \in BOOLEAN :
               IF ~parsed
               THEN /\ outcome' = [NoOutcome EXCEPT !.parse = SUIT_ERR]
                    /\ UNCHANGED <<subscriptions, topics, _manifest_topic, _fw_topic,
                                   suit_manifest, pc, sub_frame, crashed, storage,
                                   fetch_step>>
               ELSE \E url \in FirmwareUrls, known \in BOOLEAN, size \in ImageSizes :
                    /\ outcome' = NoOutcome
                    /\ _manifest_topic' = url
                    /\ suit_mqtt_sn_fetch(url, [size_known |-> known,
                                                image_size |-> IF known THEN size ELSE 0])
    /\ UNCHANGED <<expected_manifest_block, num_manifest_blocks, expected_fw_block,
                   num_fw_blocks, _manifest_buf, current_fw_block, current_manifest_block,
                   emcute_subs,
                   last_known_good_gateway>>

(* default: (mqtt_sn.c:532-533) *)
thread_unhandled ==
    /\ Receiving("thread_recv")
    /\ Head(msg_queue).type \notin {SUIT_MSG_TRIGGER, SUIT_MSG_MANIFEST}
    /\ msg_queue' = Tail(msg_queue)
    /\ UNCHANGED <<expected_manifest_block, num_manifest_blocks, expected_fw_block,
                   num_fw_blocks, subscriptions, topics, _manifest_topic, _fw_topic,
                   _manifest_buf, suit_manifest, current_fw_block, current_manifest_block,
                   emcute_subs, pc, sub_frame, crashed, storage, fetch_step,
                   outcome,
                   last_known_good_gateway>>

(* ---- suit_mqtt_sn_fetch, the receive loop (mqtt_sn.c:337-400) ---- *)

(* offset + current_fw_block.len as the code computes it, in size_t *)
size_t_sum(a, b) == (a + b) % (SIZE_MAX + 1)

(* mqtt_sn.c:354-373: the three early returns with -1 before anything is stored *)
fetch_refuses(manifest, offset, len, more) ==
    \/ ~manifest.size_known
    \/ manifest.image_size < size_t_sum(offset, len)
    \/ (~more /\ manifest.image_size # size_t_sum(offset, len))

(* case SUIT_MSG_FIRMWARE (mqtt_sn.c:342-395); pc = "fetch_done" once it returned *)
fetch_firmware ==
    /\ Receiving("fetch_recv")
    /\ Head(msg_queue).type = SUIT_MSG_FIRMWARE
    /\ msg_queue' = Tail(msg_queue)
    /\ LET offset == current_fw_block.num * CONFIG_SUIT_MQTT_SN_BLOCKSIZE
           more == current_fw_block.num < num_fw_blocks - 1
           step == [NoStep EXCEPT !.extent = offset + current_fw_block.len,
                                  !.last = ~more]
           write == [op |-> "write", offset |-> offset, len |-> current_fw_block.len]
       IN  IF fetch_refuses(suit_manifest, offset, current_fw_block.len, more)
           THEN /\ fetch_step' = [step EXCEPT !.ret = "-1"]
                /\ storage' = storage
                /\ pc' = "fetch_done"
           ELSE \E wres \in StorageResults, fres \in StorageResults :
                LET res == IF more THEN wres ELSE fres IN
                /\ more => fres = SUIT_OK
                /\ storage' = IF more THEN Log(storage, write)
                              ELSE Log(Log(storage, write), [op |-> "finish"])
                /\ fetch_step' = [step EXCEPT !.writes = 1,
                                      !.wres = wres,
                                      !.finishes = IF more THEN 0 ELSE 1,
                                      !.ret = IF res # SUIT_OK THEN res
                                              ELSE IF ~more THEN "0" ELSE "none"]
                /\ pc' = IF res # SUIT_OK \/ ~more THEN "fetch_done" ELSE pc
    /\ UNCHANGED <<expected_manifest_block, num_manifest_blocks, expected_fw_block,
                   num_fw_blocks, subscriptions, topics, _manifest_topic, _fw_topic,
                   _manifest_buf, suit_manifest, current_fw_block, current_manifest_block,
                   emcute_subs, sub_frame, crashed, outcome,
                   last_known_good_gateway>>

(* default: (mqtt_sn.c:396-398) *)
fetch_unhandled ==
    /\ Receiving("fetch_recv")
    /\ Head(msg_queue).type # SUIT_MSG_FIRMWARE
    /\ msg_queue' = Tail(msg_queue)
    /\ fetch_step' = NoStep
    /\ UNCHANGED <<expected_manifest_block, num_manifest_blocks, expected_fw_block,
                   num_fw_blocks, subscriptions, topics, _manifest_topic, _fw_topic,
                   _manifest_buf, suit_manifest, current_fw_block, current_manifest_block,
                   emcute_subs, pc, sub_frame, crashed, storage, outcome,
                   last_known_good_gateway>>

(* thread_manifest_done without the test of riotboot_hdr_validate *)
thread_manifest_done_unvalidated ==
    /\ ~crashed
    /\ pc = "fetch_done"
    /\ \E parse \in (IF fetch_step.ret = "0" THEN {SUIT_OK, SUIT_ERR} ELSE {SUIT_ERR}),
          valid \in BOOLEAN :
          /\ parse # SUIT_OK => ~valid
          /\ outcome' = [parse |-> parse, hdr_valid |-> valid]
          /\ pc' = IF parse = SUIT_OK THEN "rebooted" ELSE "thread_recv"
    /\ fetch_step' = NoStep
    /\ storage' = <<>>
    /\ UNCHANGED <<expected_manifest_block, num_manifest_blocks, expected_fw_block,
                   num_fw_blocks, subscriptions, topics, _manifest_topic, _fw_topic,
                   _manifest_buf, suit_manifest, current_fw_block, current_manifest_block,
                   msg_queue, emcute_subs, sub_frame, crashed,
                   last_known_good_gateway>>

(* the rest of case SUIT_MSG_MANIFEST once suit_mqtt_sn_fetch has returned
   (mqtt_sn.c:504-531): suit_parse returns; on SUIT_OK the header of the other
   slot is validated and the device reboots *)
thread_manifest_done ==
    /\ ~crashed
    /\ pc = "fetch_done"
    /\ \E parse \in (IF fetch_step.ret = "0" THEN {SUIT_OK, SUIT_ERR} ELSE {SUIT_ERR}),
          valid \in BOOLEAN :
          /\ parse # SUIT_OK => ~valid
          /\ outcome' = [parse |-> parse, hdr_valid |-> valid]
          /\ pc' = IF parse = SUIT_OK /\ valid THEN "rebooted" ELSE "thread_recv"
    /\ fetch_step' = NoStep
    /\ storage' = <<>>
    /\ UNCHANGED <<expected_manifest_block, num_manifest_blocks, expected_fw_block,
                   num_fw_blocks, subscriptions, topics, _manifest_topic, _fw_topic,
                   _manifest_buf, suit_manifest, current_fw_block, current_manifest_block,
                   msg_queue, emcute_subs, sub_frame, crashed,
                   last_known_good_gateway>>

(* ---- the specifications ---- *)
(* the scenario records are kept by SpecInOrder and SpecFirmwareInOrder only *)
Unrecorded == UNCHANGED <<transfer, fw_transfer>>

OnPubTrigger(payloads) ==
    (\E topic \in payloads : suit_mqtt_sn_trigger(topic)) /\ Unrecorded
OnPubManifest(publishes) ==
    (\E p \in publishes : suit_mqtt_sn_on_pub_manifest(p[1], p[2])) /\ Unrecorded
OnPubFirmware(publishes) ==
    (\E p \in publishes : suit_mqtt_sn_on_pub_firmware(p[1], p[2])) /\ Unrecorded

(* the user enters "sub <SUIT_TRIGGER>" until the trigger topic is subscribed *)
CmdSubTrigger == 0 \notin emcute_subs /\ cmd_sub(SUIT_TRIGGER) /\ Unrecorded
(* a gateway that answers every SUBSCRIBE: a registered id for the trigger
   topic, id 0 for the wildcard topics "<parent>/#" *)
SubscribedTrigger == sub_emcute_sub("shell", {EMCUTE_OK}, {1}) /\ Unrecorded
SubscribedWildcard == sub_emcute_sub("coordinator", {EMCUTE_OK}, {0}) /\ Unrecorded
ThreadTrigger == thread_trigger /\ Unrecorded
ThreadManifest == thread_manifest /\ Unrecorded
ThreadManifestDone == thread_manifest_done /\ Unrecorded
ThreadUnhandled == thread_unhandled /\ Unrecorded
FetchFirmware == fetch_firmware /\ Unrecorded
FetchUnhandled == fetch_unhandled /\ Unrecorded

(* SpecManifest: the manifest transfer, with a parser that rejects the manifest *)
Trigger == OnPubTrigger({ManifestUrl})
ManifestPublish == OnPubManifest(Publishes(ManifestPayloads))
ManifestRejected == ThreadManifest /\ pc' = "thread_recv"

NextManifest ==
    \/ CmdSubTrigger
    \/ SubscribedTrigger
    \/ SubscribedWildcard
    \/ Trigger
    \/ ManifestPublish
    \/ ThreadTrigger
    \/ ManifestRejected

SpecManifest == Init /\ [][NextManifest]_vars

(* Spec: the whole update, with a manifest of one block *)
OneBlockManifest ==
    {<<SizeTopic, <<"1">>>>, <<BlockTopic(0), SubSeq(PAYLOAD_A, 1, CONFIG_SUIT_MQTT_SN_BLOCKSIZE)>>,
     <<BlockTopic(1), SubSeq(PAYLOAD_A, 1, CONFIG_SUIT_MQTT_SN_BLOCKSIZE)>>}

ManifestPublishOne == OnPubManifest(OneBlockManifest)
FirmwarePublish == OnPubFirmware(Publishes(FirmwarePayloads))

Next ==
    \/ CmdSubTrigger
    \/ SubscribedTrigger
    \/ SubscribedWildcard
    \/ Trigger
    \/ ManifestPublishOne
    \/ FirmwarePublish
    \/ ThreadTrigger
    \/ ThreadManifest
    \/ ThreadManifestDone
    \/ ThreadUnhandled
    \/ FetchFirmware
    \/ FetchUnhandled

Spec == Init /\ [][Next]_vars

(* SpecSub: subscribing, against every answer of the gateway, for every topic
   the shell and the trigger publisher may give *)
ShellTopics == {SUIT_TRIGGER, <<"t", "r", "i", "g", "g", "e", "r">>}

CmdSub == (\E topic \in ShellTopics : cmd_sub(topic)) /\ Unrecorded
TriggerAny == OnPubTrigger(TriggerPayloads)
EmcuteSub == (\E self \in Threads : sub_emcute_sub(self, EmcuteResults, TopicIds)) /\ Unrecorded
EmcuteCon == (\E self \in Threads : sub_emcute_con(self)) /\ Unrecorded

NextSub ==
    \/ CmdSub
    \/ EmcuteSub
    \/ EmcuteCon
    \/ TriggerAny
    \/ ThreadTrigger

SpecSub == Init /\ [][NextSub]_vars

(* SpecInOrder: one trigger, then the transport delivers on the manifest
   topics a size reply N and the blocks 0..N-1 strictly in order, with
   payloads of up to a block; the parser rejects the manifest *)
InOrder(mon, p) == Deliver(mon, p[1], p[2]).stage = "sized"

TriggerOnce ==
    /\ transfer.stage = "idle"
    /\ suit_mqtt_sn_trigger(ManifestUrl)
    /\ transfer' = StartTransfer
    /\ UNCHANGED fw_transfer

ManifestInOrder(publishes) ==
    \E p \in publishes :
        /\ InOrder(transfer, p)
        /\ suit_mqtt_sn_on_pub_manifest(p[1], p[2])
        /\ transfer' = Deliver(transfer, p[1], p[2])
        /\ UNCHANGED fw_transfer

BlockPayloads == {d \in ManifestPayloads : Len(d) <= CONFIG_SUIT_MQTT_SN_BLOCKSIZE}
ManifestPublishInOrder == ManifestInOrder(Publishes(BlockPayloads))

(* transfer.done counts the calls of suit_parse *)
ManifestParsed ==
    /\ thread_manifest
    /\ pc' = "thread_recv"
    /\ transfer' = [transfer EXCEPT !.done =
                       IF IsLastManifestBlock(Head(msg_queue)) THEN @ + 1 ELSE @]
    /\ UNCHANGED fw_transfer

NextInOrder ==
    \/ CmdSubTrigger
    \/ SubscribedTrigger
    \/ SubscribedWildcard
    \/ TriggerOnce
    \/ ManifestPublishInOrder
    \/ ThreadTrigger
    \/ ManifestParsed

SpecInOrder == Init /\ [][NextInOrder]_vars

(* SpecSessions: as SpecInOrder, but a trigger may arrive at any time and
   begins a new session: the record starts again, and the transport delivers
   the size reply and the blocks of the new session strictly in order *)
TriggerSession ==
    /\ suit_mqtt_sn_trigger(ManifestUrl)
    /\ transfer' = StartTransfer
    /\ UNCHANGED fw_transfer

NextSessions ==
    \/ CmdSubTrigger
    \/ SubscribedTrigger
    \/ SubscribedWildcard
    \/ TriggerSession
    \/ ManifestPublishInOrder
    \/ ThreadTrigger
    \/ ManifestParsed

SpecSessions == Init /\ [][NextSessions]_vars

(* SpecFirmwareInOrder: one trigger and a manifest of one block; then the
   transport delivers on the firmware topics a size reply N and the blocks
   0..N-1 strictly in order *)
ManifestPublishOneInOrder == ManifestInOrder(OneBlockManifest)

FetchEntered ==
    /\ thread_manifest
    /\ fw_transfer' = IF pc' = "fetch_recv" THEN StartTransfer ELSE fw_transfer
    /\ UNCHANGED transfer

FirmwarePublishInOrder ==
    \E p \in Publishes(FirmwarePayloads) :
        /\ InOrder(fw_transfer, p)
        /\ suit_mqtt_sn_on_pub_firmware(p[1], p[2])
        /\ fw_transfer' = Deliver(fw_transfer, p[1], p[2])
        /\ UNCHANGED transfer

NextFirmwareInOrder ==
    \/ CmdSubTrigger
    \/ SubscribedTrigger
    \/ SubscribedWildcard
    \/ TriggerOnce
    \/ ManifestPublishOneInOrder
    \/ FirmwarePublishInOrder
    \/ ThreadTrigger
    \/ FetchEntered
    \/ ThreadManifestDone
    \/ ThreadUnhandled
    \/ FetchFirmware

SpecFirmwareInOrder == Init /\ [][NextFirmwareInOrder]_vars

(* SpecFirmwareDisorder: as SpecFirmwareInOrder, but while the fetch waits
   and blocks are still missing the transport may deliver a block with
   another index than the next one (fw_transfer.stage becomes "disturbed"),
   and any block after that; every payload fits a block *)
FirmwareBlocks ==
    Publishes({d \in FirmwarePayloads : Len(d) <= CONFIG_SUIT_MQTT_SN_BLOCKSIZE})

FirmwareBlockInOrder ==
    \E p \in FirmwareBlocks :
        /\ InOrder(fw_transfer, p)
        /\ suit_mqtt_sn_on_pub_firmware(p[1], p[2])
        /\ fw_transfer' = Deliver(fw_transfer, p[1], p[2])
        /\ UNCHANGED transfer

OutOfOrder(mon, p) ==
    /\ mon.stage = "sized"
    /\ Len(mon.payloads) < mon.n
    /\ p[1] \in BlockTopics \ {BlockTopicName(Len(mon.payloads))}

FirmwarePublishOutOfOrder ==
    \E p \in FirmwareBlocks :
        /\ pc = "fetch_recv"
        /\ OutOfOrder(fw_transfer, p)
        /\ suit_mqtt_sn_on_pub_firmware(p[1], p[2])
        /\ fw_transfer' = Deliver(fw_transfer, p[1], p[2])
        /\ UNCHANGED transfer

FirmwarePublishLater ==
    \E p \in FirmwareBlocks :
        /\ pc = "fetch_recv"
        /\ fw_transfer.stage = "disturbed"
        /\ p[1] \in BlockTopics
        /\ suit_mqtt_sn_on_pub_firmware(p[1], p[2])
        /\ UNCHANGED <<transfer, fw_transfer>>

NextFirmwareDisorder ==
    \/ CmdSubTrigger
    \/ SubscribedTrigger
    \/ SubscribedWildcard
    \/ TriggerOnce
    \/ ManifestPublishOneInOrder
    \/ FirmwareBlockInOrder
    \/ FirmwarePublishOutOfOrder
    \/ FirmwarePublishLater
    \/ ThreadTrigger
    \/ FetchEntered
    \/ ThreadManifestDone
    \/ ThreadUnhandled
    \/ FetchFirmware

SpecFirmwareDisorder == Init /\ [][NextFirmwareDisorder]_vars

(* SpecCon: the update of SpecFirmwareInOrder together with the shell command
   "con" and a gateway that may answer a SUBSCRIBE with any result *)
CmdCon ==
    (\E argv \in ConArgvs, res \in {EMCUTE_OK, EMCUTE_TIMEOUT} : cmd_con(argv, res))
        /\ Unrecorded

NextCon ==
    \/ CmdCon
    \/ CmdSubTrigger
    \/ EmcuteSub
    \/ EmcuteCon
    \/ TriggerOnce
    \/ ManifestPublishOneInOrder
    \/ FirmwarePublishInOrder
    \/ ThreadTrigger
    \/ FetchEntered
    \/ ThreadManifestDone
    \/ ThreadUnhandled
    \/ FetchFirmware

SpecCon == Init /\ [][NextCon]_vars

(* ---- properties ---- *)
RECURSIVE Concat(_)
Concat(seqs) == IF seqs = <<>> THEN <<>> ELSE Head(seqs) \o Concat(Tail(seqs))

(* every block of the transfer recorded in mon has been delivered *)
Delivered(mon) == mon.stage = "sized" /\ mon.n >= 1 /\ Len(mon.payloads) = mon.n

(* C1: after a trigger and a size reply N >= 1, once the blocks 0..N-1 have
   been delivered strictly in order and the coordinator has received their
   messages, _manifest_buf[0..length) is the concatenation of the N payloads,
   with length = (N-1)*BLOCKSIZE + length of the last block, and the manifest
   parser has been invoked exactly once. *)
C1_InOrderManifestReconstructed ==
    (Delivered(transfer) /\ msg_queue = <<>>) =>
        LET length == (transfer.n - 1) * CONFIG_SUIT_MQTT_SN_BLOCKSIZE
                          + Len(transfer.payloads[transfer.n])
        IN  /\ Prefix(_manifest_buf, length) = Concat(transfer.payloads)
            /\ length <= SUIT_MANIFEST_BUFSIZE
            /\ transfer.done = 1

(* C2: a publish on a block topic whose index differs from the expected one
   is rejected by both callbacks: the expected-block counter, the manifest
   buffer, the current block and the coordinator's queue stay as they are
   (a step that changes one of them is no such publish). *)
C2_UnexpectedBlockRejected ==
    [][/\ \/ UNCHANGED <<expected_manifest_block, _manifest_buf,
                         current_manifest_block, msg_queue>>
          \/ \A n \in 0..MaxBlockNum \ {expected_manifest_block} :
                 \A data \in ManifestPayloads :
                     ~suit_mqtt_sn_on_pub_manifest(BlockTopic(n), data)
       /\ \/ UNCHANGED <<expected_fw_block, current_fw_block, msg_queue>>
          \/ \A n \in 0..MaxBlockNum \ {expected_fw_block} :
                 \A data \in FirmwarePayloads :
                     ~suit_mqtt_sn_on_pub_firmware(BlockTopic(n), data)]_vars

(* a firmware transfer is under way with block 0 accepted: the publishes of
   block 0 again and of block 2 are the unexpected ones *)
C2_Witness ==
    /\ Dispatch("firmware")
    /\ pc = "fetch_recv"
    /\ num_fw_blocks > 2
    /\ expected_fw_block = 1
    /\ current_fw_block.len > 0

(* C3: every accepted manifest block lies within the manifest buffer:
   block_index * BLOCKSIZE + payload_length <= SUIT_MANIFEST_BUFSIZE. *)
C3_ManifestWritesInBuffer ==
    current_manifest_block.num * CONFIG_SUIT_MQTT_SN_BLOCKSIZE + current_manifest_block.len
        <= SUIT_MANIFEST_BUFSIZE

(* C4: when suit_mqtt_sn_fetch processes a firmware block with offset + length
   beyond the image size of the manifest, it returns -1 and has called neither
   suit_storage_write nor suit_storage_finish for that block. *)
C4_OverrunRefused ==
    (suit_manifest.size_known /\ fetch_step.extent > suit_manifest.image_size) =>
        /\ fetch_step.ret = "-1"
        /\ fetch_step.writes = 0
        /\ fetch_step.finishes = 0

(* C5: when suit_mqtt_sn_fetch processes the final firmware block and
   offset + length differs from the image size of the manifest, it returns -1
   without calling suit_storage_finish; it returns 0 only for a final block
   whose offset + length is the image size. *)
C5_MismatchRefused ==
    /\ (suit_manifest.size_known /\ fetch_step.last
            /\ fetch_step.extent # suit_manifest.image_size) =>
           (fetch_step.ret = "-1" /\ fetch_step.finishes = 0)
    /\ fetch_step.ret = "0" =>
           /\ suit_manifest.size_known
           /\ fetch_step.last
           /\ fetch_step.extent = suit_manifest.image_size

(* the storage calls C6 describes for the blocks recorded in mon *)
ExpectedStorageCalls(mon) ==
    [i \in 1..mon.n |-> [op |-> "write",
                         offset |-> (i - 1) * CONFIG_SUIT_MQTT_SN_BLOCKSIZE,
                         len |-> Len(mon.payloads[i])]]
        \o <<[op |-> "finish"]>>

(* C6: for a firmware transfer of N blocks delivered in order whose lengths
   end exactly at the image size, unless the storage reports an error,
   suit_mqtt_sn_fetch returns 0 after one suit_storage_write per block at
   offset index*BLOCKSIZE in ascending order and one suit_storage_finish
   after the last write. *)
C6_InOrderFirmwareStored ==
    (/\ pc = "fetch_done"
     /\ Delivered(fw_transfer)
     /\ suit_manifest.size_known
     /\ (fw_transfer.n - 1) * CONFIG_SUIT_MQTT_SN_BLOCKSIZE
            + Len(fw_transfer.payloads[fw_transfer.n]) = suit_manifest.image_size
     /\ \A i \in 1..fw_transfer.n :
            Len(fw_transfer.payloads[i]) <= CONFIG_SUIT_MQTT_SN_BLOCKSIZE
     /\ fetch_step.ret # SUIT_ERR)
    => /\ fetch_step.ret = "0"
       /\ storage = ExpectedStorageCalls(fw_transfer)

(* C7: one sub() call makes at most one reconnect and, after a
   gateway-disconnected result, at most one more subscribe attempt. *)
C7_OneReconnectOneRetry ==
    \A t \in Threads : sub_frame[t].ncon <= 1 /\ sub_frame[t].nsub <= 1

(* C8: when sub() has accepted a topic, the name stored in topics[i] and
   handed to emcute_sub is the complete topic of the caller and fits, with
   its terminator, in TOPIC_MAXLEN bytes. *)
C8_CompleteTopicStored ==
    \A t \in Threads :
        sub_frame[t].pc = "emcute_sub" =>
            /\ topics[sub_frame[t].i] = sub_frame[t].topic
            /\ Len(sub_frame[t].topic) + 1 <= TOPIC_MAXLEN

(* C9: when suit_mqtt_sn_fetch, waiting for a firmware block, receives a
   trigger message, it returns without success. *)
C9_TriggerAbortsFetch ==
    [][(/\ Receiving("fetch_recv")
        /\ Head(msg_queue).type = SUIT_MSG_TRIGGER
        /\ msg_queue' = Tail(msg_queue))
       => (pc' = "fetch_done" /\ fetch_step'.ret \notin {"0", "none"})]_vars

(* C10: suit_mqtt_sn_fetch does not wait for firmware blocks after
   _suit_handle_topic has refused the url or the subscription has failed. *)
C10_NoWaitAfterFailedSubscribe ==
    pc = "fetch_recv" => sub_frame["coordinator"].ret \notin {EINVAL, "1"}

(* the parent topic a trigger payload names, with or without the scheme *)
ParentTopic(payload) ==
    IF StartsWithScheme(payload)
    THEN SubSeq(payload, Len(MQTT_SCHEME) + 1, Len(payload))
    ELSE payload

(* C11: when the coordinator handles a trigger, the payload with or without
   the "mqtt://" prefix alike, it starts the manifest fetch: sub() is entered
   for the wildcard topic of the manifest parent topic the payload names. *)
C11_UnprefixedTriggerSubscribes ==
    [][(/\ Receiving("thread_recv")
        /\ Head(msg_queue).type = SUIT_MSG_TRIGGER
        /\ msg_queue' = Tail(msg_queue))
       => /\ sub_frame'["coordinator"].pc = "emcute_sub"
          /\ sub_frame'["coordinator"].topic = ParentTopic(_manifest_topic) \o <<"/", "#">>]_vars

(* C12: the coordinator calls pm_reboot only in this order: the message of
   the final manifest block (index num_manifest_blocks - 1) starts suit_parse
   and the fetch it drives, the fetch returns 0 and suit_parse SUIT_OK, and
   riotboot_hdr_validate succeeds; after a failed parse or fetch, or an
   invalid header, it does not reboot and waits for messages again. *)
C12_RebootOnlyAfterValidatedUpdate ==
    [][\/ UNCHANGED <<pc, outcome>>
       \/ /\ (pc # "fetch_recv" /\ pc' = "fetch_recv") =>
                 /\ pc = "thread_recv"
                 /\ Head(msg_queue).type = SUIT_MSG_MANIFEST
                 /\ IsLastManifestBlock(Head(msg_queue))
          /\ (pc # "fetch_done" /\ pc' = "fetch_done") => pc = "fetch_recv"
          /\ (pc # "rebooted" /\ pc' = "rebooted") =>
                 /\ pc = "fetch_done"
                 /\ fetch_step.ret = "0"
                 /\ outcome' = [parse |-> SUIT_OK, hdr_valid |-> TRUE]
          /\ (outcome' # outcome /\ outcome'.parse = SUIT_ERR) => pc' = "thread_recv"
          /\ (pc = "fetch_done" /\ pc' # "rebooted") => pc' = "thread_recv"]_vars

(* the device has rebooted into the validated image *)
C12_Witness ==
    /\ pc = "rebooted"
    /\ outcome = [parse |-> SUIT_OK, hdr_valid |-> TRUE]
    /\ num_manifest_blocks = 1

(* C13: when the coordinator handles a trigger that arrives while a manifest
   transfer is in progress (k >= 1 blocks of N accepted, k < N), the new
   transfer starts with the expected block index 0 (the trigger is the only
   message pending: every block accepted so far was accepted before it). *)
C13_TriggerRestartsTransfer ==
    [][(/\ Receiving("thread_recv")
        /\ msg_queue = <<[type |-> SUIT_MSG_TRIGGER, value |-> 0]>>
        /\ msg_queue' = Tail(msg_queue)
        /\ expected_manifest_block >= 1
        /\ expected_manifest_block < num_manifest_blocks)
       => expected_manifest_block' = 0]_vars

(* C14: when suit_mqtt_sn_fetch has failed at a block and the coordinator
   returns to waiting for the next trigger, the state of the failed transfer
   (of a size reply N >= 1 and the blocks up to the failed one)
   is discarded: the next block expected on the firmware topic is block 0
   (no firmware message is pending: the failed block is the last accepted). *)
C14_FailedTransferDiscarded ==
    [][(/\ pc = "fetch_done"
        /\ fetch_step.ret \in {"-1", SUIT_ERR}
        /\ num_fw_blocks >= 1
        /\ msg_queue = <<>>
        /\ pc' = "thread_recv")
       => expected_fw_block' = 0]_vars

(* C15: last_known_good_gateway changes only in a cmd_con that returns 0,
   that is after emcute_con returned EMCUTE_OK, and then holds the endpoint
   of that command; a failed connect, cmd_sub, the subscribe attempts and the
   reconnect inside sub(), the callbacks and the coordinator's steps leave
   it as it is. *)
C15_GatewayKeptUnlessConnected ==
    [][\/ UNCHANGED last_known_good_gateway
       \/ /\ sub_frame["shell"].pc = "idle"
          /\ sub_frame'["shell"] = [IdleFrame EXCEPT !.ret = "0"]
          /\ \E argv \in ConArgvs : last_known_good_gateway' = ConGateway(argv)
          /\ UNCHANGED <<pc, msg_queue, subscriptions, emcute_subs>>]_vars

(* with a gateway stored by an earlier cmd_con, sub() of the coordinator has
   reconnected and subscribes again, and a later connect has failed *)
C15_Witness ==
    /\ last_known_good_gateway = [family |-> AF_INET6,
                                  addr |-> ipv6_addr_from_str(GATEWAY_ADDRESS),
                                  port |-> 1]
    /\ sub_frame["coordinator"].pc = "emcute_sub"
    /\ sub_frame["coordinator"].ncon = 1
    /\ sub_frame["shell"].ret = "1"

(* C16: when emcute_sub fails with a result other than gateway-disconnected,
   sub() returns 1 at once: no emcute_con, no further emcute_sub, nothing
   subscribed. *)
C16_OtherFailureSurfaced ==
    [][\A self \in Threads :
          (/\ sub_frame[self].pc = "emcute_sub"
           /\ sub_frame'[self] # sub_frame[self]
           /\ sub_emcute_sub(self, EmcuteResults \ {EMCUTE_OK, EMCUTE_GWDISCON}, TopicIds))
          => /\ sub_frame'[self] = [IdleFrame EXCEPT !.ret = "1", !.res = EMCUTE_TIMEOUT]
             /\ UNCHANGED <<subscriptions, emcute_subs>>]_vars

(* the first emcute_sub of the coordinator's sub() has timed out *)
C16_Witness ==
    /\ sub_frame["coordinator"].pc = "idle"
    /\ sub_frame["coordinator"].res = EMCUTE_TIMEOUT
    /\ sub_frame["coordinator"].ret = "1"
    /\ emcute_subs = {0}

(* C17: a publish on the size topic leaves the transfer reset: the block
   count is the number parsed from the payload and the expected block index
   is 0, whatever they were before; no message is posted and neither the
   manifest buffer nor the current block is written. *)
C17_SizePublishResets ==
    [][\A data \in SizePayloads :
          /\ suit_mqtt_sn_on_pub_manifest(SizeTopic, data) =>
                 /\ num_manifest_blocks' = atoi(data)
                 /\ expected_manifest_block' = 0
                 /\ UNCHANGED <<msg_queue, _manifest_buf, current_manifest_block>>
          /\ suit_mqtt_sn_on_pub_firmware(SizeTopic, data) =>
                 /\ num_fw_blocks' = atoi(data)
                 /\ expected_fw_block' = 0
                 /\ UNCHANGED <<msg_queue, current_fw_block>>]_vars

(* C18: whenever the block count of a transfer is known (a size reply
   N >= 1 has been stored), the index of the block accepted last and the
   index expected next are both in 0..N-1, for the manifest and for the
   firmware transfer. *)
C18_BlockIndexBelowCount ==
    /\ num_manifest_blocks >= 1 =>
           /\ expected_manifest_block \in 0..(num_manifest_blocks - 1)
           /\ current_manifest_block.num \in 0..(num_manifest_blocks - 1)
    /\ num_fw_blocks >= 1 =>
           /\ expected_fw_block \in 0..(num_fw_blocks - 1)
           /\ current_fw_block.num \in 0..(num_fw_blocks - 1)

(* the fetch has stored the blocks 0, 1, ... one after the other *)
StoredInOrder ==
    \A i \in 1..Len(storage) :
        storage[i].op = "write" =>
            storage[i].offset = (i - 1) * CONFIG_SUIT_MQTT_SN_BLOCKSIZE

(* C19: once a firmware block with another index than the expected one has
   arrived during a transfer, that transfer is aborted: the fetch does not
   go on with blocks delivered later and never ends with success (also not
   when it has handled every block before the next one arrived). *)
C19_OrderViolationAborts ==
    (fw_transfer.stage = "disturbed" /\ pc = "fetch_done" /\ StoredInOrder)
        => fetch_step.ret # "0"

(* C20: while the message of an accepted block waits in the coordinator's
   queue, no callback writes the block it announces: current_fw_block stays
   as it is while a firmware message is pending, current_manifest_block
   while a manifest message is pending. *)
C20_PendingBlockKept ==
    [][/\ (\E k \in DOMAIN msg_queue : msg_queue[k].type = SUIT_MSG_FIRMWARE)
              => UNCHANGED current_fw_block
       /\ (\E k \in DOMAIN msg_queue : msg_queue[k].type = SUIT_MSG_MANIFEST)
              => UNCHANGED current_manifest_block]_vars

(* block i of the session recorded in mon lies at its place in _manifest_buf *)
BlockInBuffer(mon, i) ==
    LET offset == (i - 1) * CONFIG_SUIT_MQTT_SN_BLOCKSIZE IN
    /\ offset + Len(mon.payloads[i]) <= SUIT_MANIFEST_BUFSIZE
    /\ SubSeq(_manifest_buf, offset + 1, offset + Len(mon.payloads[i])) = mon.payloads[i]

(* C21: the coordinator calls suit_parse only when the size reply N and the
   blocks 0..N-1 of the current session (since its trigger) have all been
   delivered; the buffer it hands over then holds each block of this session
   at its place, and the length is (N-1)*BLOCKSIZE + length of block N-1.
   (With no trigger pending, the coordinator has handled the trigger of the
   session and every message of an earlier session; the manifests are of a
   size that fits the buffer.) *)
C21_ParsedOnlyOnCompletion ==
    [][(/\ transfer'.done = transfer.done + 1
        /\ \A k \in DOMAIN msg_queue : msg_queue[k].type # SUIT_MSG_TRIGGER
        /\ num_manifest_blocks * CONFIG_SUIT_MQTT_SN_BLOCKSIZE <= SUIT_MANIFEST_BUFSIZE) =>
           /\ Delivered(transfer)
           /\ \A i \in 1..transfer.n : BlockInBuffer(transfer, i)
           /\ ManifestLen = (transfer.n - 1) * CONFIG_SUIT_MQTT_SN_BLOCKSIZE
                                + Len(transfer.payloads[transfer.n])]_vars

(* C22: the length recorded for an accepted firmware block, which is the
   number of bytes copied into current_fw_block.data, is at most
   CONFIG_SUIT_MQTT_SN_BLOCKSIZE in every reachable state. *)
C22_FirmwareBlockFits ==
    current_fw_block.len <= CONFIG_SUIT_MQTT_SN_BLOCKSIZE

(* C23: when suit_storage_write has failed for a firmware block, the last
   one included, suit_mqtt_sn_fetch returns a non-zero error for that block
   and has not called suit_storage_finish; it returns 0 only after a write
   and a finish that both succeeded. *)
C23_WriteFailureReturned ==
    /\ fetch_step.wres = SUIT_ERR =>
           (fetch_step.finishes = 0 /\ fetch_step.ret \notin {"0", "none"})
    /\ fetch_step.ret = "0" => fetch_step.wres = SUIT_OK

(* C24: the slot sub() has chosen is below SUB_MAXNUM in every call: slot 0
   for the trigger topic, a slot in 1..SUB_MAXNUM-1 for every other topic,
   also when no slot is free. *)
C24_SlotBelowSubMaxnum ==
    \A t \in Threads :
        sub_frame[t].pc \in {"emcute_sub", "emcute_con"} =>
            /\ sub_frame[t].i < SUB_MAXNUM
            /\ sub_frame[t].i = 0 <=>
                   strncmp_eq(SUIT_TRIGGER, sub_frame[t].topic, sub_frame[t].len)

====
